---------------------------- MODULE Spec2Model ----------------------------
(***************************************************************************)
(* Lighthouse i18n: ICU message formatting (shared/localization/message.js)*)
(* and the locale registry, getFormatted and the replaceIcuMessages tree   *)
(* walk (the i18n module, src/unnamed/part_000).                           *)
(*                                                                         *)
(* JavaScript values are tagged tuples:                                    *)
(*   <<"str", chars>>      a string, chars a sequence of 1-char strings    *)
(*   <<"fmt", ast, vals, locale>>  the string MessageFormat.format built   *)
(*   <<"num", n, d>>       the finite number n/d in lowest terms, d > 0    *)
(*   <<"obj", entries>>    a plain object, entries in Object.entries order *)
(*   <<"arr", entries>>    an array, entries keyed "0", "1", ...           *)
(*   <<"fn">>              a function, <<"undef">> undefined, <<"null">>   *)
(* An entry is <<key, value>> with key a sequence of characters.           *)
(* A call's outcome is <<"return", value>> or <<"throw", kind, detail>>.   *)
(***************************************************************************)
EXTENDS Integers, Sequences, FiniteSets, TLC

VARIABLES LOCALE_MESSAGES, doc, input, last, log

vars == <<LOCALE_MESSAGES, doc, input, last, log>>

-----------------------------------------------------------------------------
(* JavaScript values *)

Str(chars) == <<"str", chars>>
Undefined == <<"undef">>
Null == <<"null">>
Fn == <<"fn">>
Obj(entries) == <<"obj", entries>>
Arr(entries) == <<"arr", entries>>

Abs(n) == IF n < 0 THEN -n ELSE n

RECURSIVE Gcd(_, _)
Gcd(a, b) == IF b = 0 THEN a ELSE Gcd(b, a % b)

\* the number n/d (d > 0) in lowest terms
Num(n, d) ==
  LET g == Gcd(Abs(n), d)
  IN  <<"num", n \div g, d \div g>>

TypeOf(v) ==
  CASE v[1] \in {"str", "fmt"} -> "string"
    [] v[1] = "num" -> "number"
    [] v[1] = "fn" -> "function"
    [] v[1] = "undef" -> "undefined"
    [] OTHER -> "object"

\* Math.round on the rational n/d, d > 0: floor(n/d + 1/2)
MathRound(n, d) == (2 * n + d) \div (2 * d)

Keys(o) == {o[2][i][1] : i \in DOMAIN o[2]}

HasOwn(o, key) == key \in Keys(o)

\* property names every plain object inherits from Object.prototype
\* (the ones the model's templates and values use)
ObjectPrototypeKeys == {<<"t", "o", "S", "t", "r", "i", "n", "g">>}

\* JavaScript's `key in o` for a plain object: own or inherited
In(key, o) == HasOwn(o, key) \/ key \in ObjectPrototypeKeys

\* JavaScript's o[key] for a plain object
Get(o, key) ==
  IF HasOwn(o, key)
  THEN LET i == CHOOSE j \in DOMAIN o[2] : o[2][j][1] = key IN o[2][i][2]
  ELSE IF key \in ObjectPrototypeKeys THEN Fn ELSE Undefined

\* JavaScript's o[key] = value: in place when the key exists, appended otherwise
Put(o, key, value) ==
  IF HasOwn(o, key)
  THEN <<o[1], [i \in DOMAIN o[2] |->
                  IF o[2][i][1] = key THEN <<key, value>> ELSE o[2][i]]>>
  ELSE <<o[1], Append(o[2], <<key, value>>)>>

Return(v) == <<"return", v>>
Throw(kind, detail) == <<"throw", kind, detail>>
Threw(outcome) == outcome[1] = "throw"

-----------------------------------------------------------------------------
(* message.js *)

K_timeInMs == <<"t", "i", "m", "e", "I", "n", "M", "s">>
K_errorCode == <<"e", "r", "r", "o", "r", "C", "o", "d", "e">>
K_toString == <<"t", "o", "S", "t", "r", "i", "n", "g">>

\* AST elements of intl-messageformat-parser
Text == <<"messageTextElement">>
Arg(id, format) == <<"argumentElement", id, format>>
NoFormat == <<"none">>
NumberFormat(style) == <<"numberFormat", style>>
DateFormat == <<"dateFormat">>
PluralFormat(options) == <<"pluralFormat", options>>

\* Map.prototype.set on a Map kept as the sequence of its <<key, value>> entries
MapSet(m, key, value) ==
  IF \E i \in DOMAIN m : m[i][1] = key
  THEN [i \in DOMAIN m |-> IF m[i][1] = key THEN <<key, value>> ELSE m[i]]
  ELSE Append(m, <<key, value>>)

RECURSIVE collectAllCustomElementsFromICU(_, _)
RECURSIVE collectFromOptions(_, _)

collectAllCustomElementsFromICU(icuElements, seenElementsById) ==
  IF icuElements = <<>> THEN seenElementsById
  ELSE
    LET el == Head(icuElements)
        seen == IF el[1] # "argumentElement" THEN seenElementsById
                ELSE LET s == MapSet(seenElementsById, el[2], el)
                     IN  IF el[3][1] # "pluralFormat" THEN s
                         ELSE collectFromOptions(el[3][2], s)
    IN  collectAllCustomElementsFromICU(Tail(icuElements), seen)

\* the loop over el.format.options
collectFromOptions(options, seenElementsById) ==
  IF options = <<>> THEN seenElementsById
  ELSE collectFromOptions(Tail(options),
         collectAllCustomElementsFromICU(Head(options), seenElementsById))

\* the three unit conversions and the pass-through of _preformatValues
PreformatNumber(id, style, value) ==
  CASE style = "milliseconds" -> Num(MathRound(value[2], 10 * value[3]) * 10, 1)
    [] style = "seconds" /\ id = K_timeInMs ->
         Num(MathRound(value[2], 100 * value[3]), 10)
    [] style = "bytes" -> Num(value[2], 1024 * value[3])
    [] OTHER -> value

\* the first loop of _preformatValues, over the collected argument elements
RECURSIVE PreformatElements(_, _, _)
PreformatElements(argumentElements, values, formattedValues) ==
  IF argumentElements = <<>> THEN Return(formattedValues)
  ELSE
    LET id == Head(argumentElements)[2][2]
        format == Head(argumentElements)[2][3]
        value == Get(values, id)
        rest == Tail(argumentElements)
    IN  IF id # <<>> /\ ~In(id, values) THEN Throw("valueNotProvided", id)
        ELSE IF format[1] # "numberFormat"
        THEN PreformatElements(rest, values, Put(formattedValues, id, value))
        ELSE IF TypeOf(value) # "number" THEN Throw("notANumber", id)
        ELSE PreformatElements(rest, values,
               Put(formattedValues, id, PreformatNumber(id, format[2], value)))

\* the second loop of _preformatValues, over Object.keys(values)
RECURSIVE PreformatExtraValues(_, _, _)
PreformatExtraValues(valueIds, values, formattedValues) ==
  IF valueIds = <<>> THEN Return(formattedValues)
  ELSE
    LET valueId == Head(valueIds)[1]
    IN  IF In(valueId, formattedValues)
        THEN PreformatExtraValues(Tail(valueIds), values, formattedValues)
        ELSE IF valueId = K_errorCode
        THEN PreformatExtraValues(Tail(valueIds), values,
               Put(formattedValues, K_errorCode, Get(values, K_errorCode)))
        ELSE Throw("noPlaceholder", valueId)

_preformatValues(ast, values) ==
  LET elementMap == collectAllCustomElementsFromICU(ast, <<>>)
      first == PreformatElements(elementMap, values, Obj(<<>>))
  IN  IF Threw(first) THEN first
      ELSE PreformatExtraValues(values[2], values, first[2])

\* formatter.format(values) of intl-messageformat: the string built from the
\* parsed message, the preformatted values and the formatter's locale
MessageFormat_format(ast, valuesForMessageFormat, localeForMessageFormat) ==
  Return(<<"fmt", ast, valuesForMessageFormat, localeForMessageFormat>>)

\* message is the parsed template; values may be undefined (defaults to {})
_formatMessage(message, values, locale) ==
  LET vals == IF values = Undefined THEN Obj(<<>>) ELSE values
      localeForMessageFormat ==
        IF locale \in {"en-XA", "en-XL"} THEN "de-DE" ELSE locale
      valuesForMessageFormat == _preformatValues(message, vals)
  IN  IF Threw(valuesForMessageFormat) THEN valuesForMessageFormat
      ELSE MessageFormat_format(message, valuesForMessageFormat[2],
                                localeForMessageFormat)

-----------------------------------------------------------------------------
(* type-verifiers.js *)

isObjectOfUnknownValues(val) == val[1] = "obj"

isObjectOrArrayOfUnknownValues(val) == val[1] \in {"obj", "arr"}

-----------------------------------------------------------------------------
(* the i18n module *)

K_i18nId == <<"i", "1", "8", "n", "I", "d">>
K_values == <<"v", "a", "l", "u", "e", "s">>
K_formattedDefault ==
  <<"f", "o", "r", "m", "a", "t", "t", "e", "d", "D", "e", "f", "a", "u", "l", "t">>

\* the characters \s matches, among those the model's strings use
Whitespace == {" ", "\t", "\n"}

Letters ==
  {"a", "b", "c", "d", "e", "f", "g", "h", "i", "j", "k", "l", "m", "n", "o",
   "p", "q", "r", "s", "t", "u", "v", "w", "x", "y", "z",
   "A", "B", "C", "D", "E", "F", "G", "H", "I", "J", "K", "L", "M", "N", "O",
   "P", "Q", "R", "S", "T", "U", "V", "W", "X", "Y", "Z"}

\* MESSAGE_I18N_ID_REGEX.test(s), the regular expression / | [^\s]+$/. A string
\* that MessageFormat.format built is localized display text; the model's
\* templates give none that ends like a message id.
MESSAGE_I18N_ID_REGEX_test(s) ==
  /\ s[1] = "str"
  /\ \E i \in 1..(Len(s[2]) - 3) :
       /\ s[2][i] = " " /\ s[2][i + 1] = "|" /\ s[2][i + 2] = " "
       /\ \A j \in (i + 3)..Len(s[2]) : s[2][j] \notin Whitespace

isIcuMessage(icuMessageOrNot) ==
  IF ~isObjectOfUnknownValues(icuMessageOrNot) THEN FALSE
  ELSE
    LET i18nId == Get(icuMessageOrNot, K_i18nId)
        values == Get(icuMessageOrNot, K_values)
        formattedDefault == Get(icuMessageOrNot, K_formattedDefault)
    IN  IF TypeOf(i18nId) # "string" THEN FALSE
        ELSE IF TypeOf(formattedDefault) # "string" THEN FALSE
        ELSE IF values # Undefined /\ ~isObjectOfUnknownValues(values) THEN FALSE
        ELSE IF values # Undefined
                /\ \E i \in DOMAIN values[2] :
                     TypeOf(values[2][i][2]) \notin {"string", "number"}
        THEN FALSE
        ELSE MESSAGE_I18N_ID_REGEX_test(i18nId)

\* a fallback that still validates the values, against a template of text only
_localizeIcuMessage_validating(localeMessages, icuMessage, locale) ==
  IF localeMessages = Undefined THEN Throw("unsupportedLocale", locale)
  ELSE
    LET localeMessage == Get(localeMessages, Get(icuMessage, K_i18nId)[2])
    IN  IF localeMessage = Undefined
        THEN LET checked == _formatMessage(<<Text>>, Get(icuMessage, K_values), locale)
             IN  IF Threw(checked) THEN checked
                 ELSE Return(Get(icuMessage, K_formattedDefault))
        ELSE _formatMessage(localeMessage[2], Get(icuMessage, K_values), locale)

\* localeMessages is LOCALE_MESSAGES[locale]: undefined, or the object of the
\* locale's messages, each entry <<i18nId, <<"lhl", parsed message>>>>
_localizeIcuMessage(localeMessages, icuMessage, locale) ==
  IF localeMessages = Undefined THEN Throw("unsupportedLocale", locale)
  ELSE
    LET localeMessage == Get(localeMessages, Get(icuMessage, K_i18nId)[2])
    IN  IF localeMessage = Undefined
        THEN Return(Get(icuMessage, K_formattedDefault))
        ELSE _formatMessage(localeMessage[2], Get(icuMessage, K_values), locale)

getFormatted(localeMessages, icuMessageOrRawString, locale) ==
  IF isIcuMessage(icuMessageOrRawString)
  THEN _localizeIcuMessage(localeMessages, icuMessageOrRawString, locale)
  ELSE IF TypeOf(icuMessageOrRawString) = "string"
  THEN Return(icuMessageOrRawString)
  ELSE Throw("invalidIcuMessageType", "")

\* /^[a-z]+$/i.test(property)
OnlyLetters(property) ==
  property # <<>> /\ \A i \in DOMAIN property : property[i] \in Letters

\* /]|"|'|\s/.test(property)
Unhandled(property) ==
  \E i \in DOMAIN property : property[i] \in {"]", "\"", "'"} \cup Whitespace

RECURSIVE FormatPathFrom(_, _)
FormatPathFrom(pathInLHR, pathAsString) ==
  IF pathInLHR = <<>> THEN Return(pathAsString)
  ELSE
    LET property == Head(pathInLHR)
    IN  IF OnlyLetters(property)
        THEN FormatPathFrom(Tail(pathInLHR),
               (IF pathAsString # <<>> THEN pathAsString \o <<".">>
                ELSE pathAsString) \o property)
        ELSE IF Unhandled(property) THEN Throw("cannotHandle", property)
        ELSE FormatPathFrom(Tail(pathInLHR),
               pathAsString \o <<"[">> \o property \o <<"]">>)

\* a formatter that rejects no property
RECURSIVE FormatPathFrom_unchecked(_, _)
FormatPathFrom_unchecked(pathInLHR, pathAsString) ==
  IF pathInLHR = <<>> THEN Return(pathAsString)
  ELSE
    LET property == Head(pathInLHR)
    IN  IF OnlyLetters(property)
        THEN FormatPathFrom_unchecked(Tail(pathInLHR),
               (IF pathAsString # <<>> THEN pathAsString \o <<".">>
                ELSE pathAsString) \o property)
        ELSE FormatPathFrom_unchecked(Tail(pathInLHR),
               pathAsString \o <<"[">> \o property \o <<"]">>)

_formatPathAsString_unchecked(pathInLHR) == FormatPathFrom_unchecked(pathInLHR, <<>>)

_formatPathAsString(pathInLHR) == FormatPathFrom(pathInLHR, <<>>)

\* whether a value counts as true in a condition
Truthy(v) ==
  CASE v[1] \in {"undef", "null"} -> FALSE
    [] v[1] = "str" -> v[2] # <<>>
    [] v[1] = "num" -> v[2] # 0
    [] OTHER -> TRUE

Ok == <<"ok">>

\* subObject with the value of its i-th entry replaced (subObject[property] = v)
SetEntry(subObject, i, v) ==
  <<subObject[1], [subObject[2] EXCEPT ![i] = <<subObject[2][i][1], v>>]>>

\* a list started afresh at every replacement
MessageInstances_fresh(icuMessagePaths, i18nId) == <<>>

\* icuMessagePaths[i18nId] || []
MessageInstances(icuMessagePaths, i18nId) ==
  IF \E i \in DOMAIN icuMessagePaths : icuMessagePaths[i][1] = i18nId
  THEN LET i == CHOOSE j \in DOMAIN icuMessagePaths : icuMessagePaths[j][1] = i18nId
       IN  icuMessagePaths[i][2]
  ELSE <<>>

\* the element pushed for a replaced message: {values, path} or the bare path
PathEntry(possibleIcuMessage, currentPathAsString) ==
  IF Truthy(Get(possibleIcuMessage, K_values))
  THEN <<"valuesAndPath", Get(possibleIcuMessage, K_values), currentPathAsString>>
  ELSE <<"path", currentPathAsString>>

\* replaceInObject gives <<status, subObject as the walk left it, icuMessagePaths>>,
\* status Ok or what was thrown; an exception leaves the earlier replacements
\* in the document. ReplaceEntries is its loop, from the i-th entry on.
RECURSIVE replaceInObject(_, _, _, _, _)
RECURSIVE ReplaceEntries(_, _, _, _, _, _)

replaceInObject(localeMessages, locale, subObject, icuMessagePaths, pathInLHR) ==
  IF ~isObjectOrArrayOfUnknownValues(subObject)
  THEN <<Ok, subObject, icuMessagePaths>>
  ELSE ReplaceEntries(localeMessages, locale, subObject, 1, icuMessagePaths, pathInLHR)

ReplaceEntries(localeMessages, locale, subObject, i, icuMessagePaths, pathInLHR) ==
  IF i > Len(subObject[2]) THEN <<Ok, subObject, icuMessagePaths>>
  ELSE
    LET property == subObject[2][i][1]
        possibleIcuMessage == subObject[2][i][2]
        currentPathInLHR == Append(pathInLHR, property)
    IN  IF isIcuMessage(possibleIcuMessage)
        THEN
          LET formattedString == getFormatted(localeMessages, possibleIcuMessage, locale)
              i18nId == Get(possibleIcuMessage, K_i18nId)[2]
              messageInstancesInLHR == MessageInstances(icuMessagePaths, i18nId)
              currentPathAsString == _formatPathAsString(currentPathInLHR)
          IN  IF Threw(formattedString) THEN <<formattedString, subObject, icuMessagePaths>>
              ELSE IF Threw(currentPathAsString)
              THEN <<currentPathAsString, subObject, icuMessagePaths>>
              ELSE ReplaceEntries(localeMessages, locale,
                     SetEntry(subObject, i, formattedString[2]), i + 1,
                     MapSet(icuMessagePaths, i18nId,
                            Append(messageInstancesInLHR,
                                   PathEntry(possibleIcuMessage, currentPathAsString[2]))),
                     pathInLHR)
        ELSE
          LET r == replaceInObject(localeMessages, locale, possibleIcuMessage,
                                   icuMessagePaths, currentPathInLHR)
          IN  IF Threw(r[1]) THEN <<r[1], SetEntry(subObject, i, r[2]), r[3]>>
              ELSE ReplaceEntries(localeMessages, locale, SetEntry(subObject, i, r[2]),
                                  i + 1, r[3], pathInLHR)

\* <<outcome, inputObject after the call>>
replaceIcuMessages(localeMessages, inputObject, locale) ==
  LET r == replaceInObject(localeMessages, locale, inputObject, <<>>, <<>>)
  IN  IF Threw(r[1]) THEN <<r[1], r[2]>> ELSE <<Return(r[3]), r[2]>>

\* a registration that replaces the whole table
registerLocaleData_allLocales(localeMessagesByLocale, locale, lhlMessages) ==
  [l \in DOMAIN localeMessagesByLocale |-> lhlMessages]

\* LOCALE_MESSAGES[locale] = lhlMessages
registerLocaleData(localeMessagesByLocale, locale, lhlMessages) ==
  [localeMessagesByLocale EXCEPT ![locale] = lhlMessages]

\* Object.keys(LOCALE_MESSAGES), as a set: the sort fixes the order
getAvailableLocales(localeMessagesByLocale) ==
  {l \in DOMAIN localeMessagesByLocale : localeMessagesByLocale[l] # Undefined}

\* every locale of the model is one Intl.NumberFormat supports
hasLocale(localeMessagesByLocale, requestedLocale) ==
  LET hasIntlSupport == TRUE
      hasMessages == Truthy(localeMessagesByLocale[requestedLocale])
  IN  hasIntlSupport /\ hasMessages

-----------------------------------------------------------------------------
(* Bounds and the data the model runs on *)

\* calls in one run of the module
MaxCalls == 3
\* entries of the document's top-level object or array
MaxProps == 2
\* elements of a message template, at top level
MaxElems == 2
\* characters of a path: each property counts its length plus one
MaxPathChars == 5

Locales == {"en-US", "en-XA", "xx"}

ID_A == <<"f", " ", "|", " ", "a">>
ID_B == <<"f", " ", "|", " ", "b">>
ID_C == <<"f", " ", "|", " ", "c">>
\* no " | " in it: not a message id
ID_Bad == <<"f", "|", "a">>

K_x == <<"x">>
K_y == <<"y">>

\* a locale's entry for one message: {message}, message kept parsed
Lhl(ast) == <<"lhl", ast>>

T_bytes == <<Text, Arg(K_x, NumberFormat("bytes"))>>
T_plain == <<Arg(K_x, NoFormat)>>
T_text == <<Text>>

Lhl_en == Obj(<<<<ID_A, Lhl(T_bytes)>>, <<ID_C, Lhl(T_text)>>>>)
Lhl_xa == Obj(<<<<ID_A, Lhl(T_plain)>>>>)
Lhl_new == Obj(<<<<ID_A, Lhl(T_plain)>>, <<ID_B, Lhl(T_text)>>>>)

\* locales.js: the bundled locales; "xx" has no messages
InitialLocaleMessages ==
  [l \in Locales |->
     CASE l = "en-US" -> Lhl_en
       [] l = "en-XA" -> Lhl_xa
       [] OTHER -> Undefined]

\* an LH.IcuMessage as createIcuMessageFn builds it; values Undefined: no values
IcuMessage(i18nId, values, formattedDefault) ==
  IF values = Undefined
  THEN Obj(<<<<K_i18nId, Str(i18nId)>>, <<K_formattedDefault, Str(formattedDefault)>>>>)
  ELSE Obj(<<<<K_i18nId, Str(i18nId)>>, <<K_values, values>>,
             <<K_formattedDefault, Str(formattedDefault)>>>>)

MsgA == IcuMessage(ID_A, Obj(<<<<K_x, Num(2048, 1)>>>>), <<"d", "A">>)
MsgA_noValues == IcuMessage(ID_A, Undefined, <<"d", "A">>)
MsgB == IcuMessage(ID_B, Undefined, <<"d", "B">>)
MsgB_emptyValues == IcuMessage(ID_B, Obj(<<>>), <<"d", "B">>)
MsgB_unusedValue == IcuMessage(ID_B, Obj(<<<<K_y, Str(<<"s">>)>>>>), <<"d", "B">>)
MsgC == IcuMessage(ID_C, Undefined, <<"d", "C">>)
\* not messages: the id is no message id; a value of `values` is an object
NotMsg_badId == IcuMessage(ID_Bad, Undefined, <<"d">>)
NotMsg_nested == IcuMessage(ID_B, Obj(<<<<K_x, MsgB>>>>), <<"d", "B">>)
\* a message that carries one more property, itself a message
Msg_extra == Put(MsgB, <<"a">>, MsgC)

NoCall == [op |-> "none", x |-> Undefined, locale |-> "", outcome |-> Ok,
           before |-> Undefined]

Event(op, x, locale, outcome, before) ==
  [op |-> op, x |-> x, locale |-> locale, outcome |-> outcome, before |-> before]

-----------------------------------------------------------------------------
(* The module's exported operations *)

\* what callers hand to getFormatted
FormatInputs == {MsgA, MsgA_noValues, MsgB_unusedValue, Str(<<"s">>), Num(5, 1)}

CallLocales == {"en-US", "xx"}

RegisteredData == {Lhl_new, Obj(<<>>)}

GetFormatted(x, locale) ==
  /\ Len(log) < MaxCalls
  /\ LET e == Event("getFormatted", x, locale,
                    getFormatted(LOCALE_MESSAGES[locale], x, locale), doc)
     IN  last' = e /\ log' = Append(log, e)
  /\ UNCHANGED <<LOCALE_MESSAGES, doc, input>>

ReplaceIcuMessages(locale) ==
  /\ Len(log) < MaxCalls
  /\ LET r == replaceIcuMessages(LOCALE_MESSAGES[locale], doc, locale)
         e == Event("replaceIcuMessages", Undefined, locale, r[1], doc)
     IN  doc' = r[2] /\ last' = e /\ log' = Append(log, e)
  /\ UNCHANGED <<LOCALE_MESSAGES, input>>

RegisterLocaleData(locale, lhlMessages) ==
  /\ Len(log) < MaxCalls
  /\ LOCALE_MESSAGES' = registerLocaleData(LOCALE_MESSAGES, locale, lhlMessages)
  /\ LET e == Event("registerLocaleData", lhlMessages, locale, Return(Undefined), doc)
     IN  last' = e /\ log' = Append(log, e)
  /\ UNCHANGED <<doc, input>>

GetAvailableLocales ==
  /\ Len(log) < MaxCalls
  /\ LET e == Event("getAvailableLocales", Undefined, "",
                    Return(getAvailableLocales(LOCALE_MESSAGES)), doc)
     IN  last' = e /\ log' = Append(log, e)
  /\ UNCHANGED <<LOCALE_MESSAGES, doc, input>>

HasLocale(requestedLocale) ==
  /\ Len(log) < MaxCalls
  /\ LET e == Event("hasLocale", Undefined, requestedLocale,
                    Return(hasLocale(LOCALE_MESSAGES, requestedLocale)), doc)
     IN  last' = e /\ log' = Append(log, e)
  /\ UNCHANGED <<LOCALE_MESSAGES, doc, input>>

Init ==
  /\ LOCALE_MESSAGES = InitialLocaleMessages
  /\ doc = Obj(<<<<<<"a">>, MsgA>>, <<<<"b">>, MsgB>>>>)
  /\ input = <<>>
  /\ last = NoCall
  /\ log = <<>>

Next ==
  \/ \E x \in FormatInputs, locale \in CallLocales : GetFormatted(x, locale)
  \/ \E locale \in CallLocales : ReplaceIcuMessages(locale)
  \/ \E locale \in CallLocales, lhlMessages \in RegisteredData :
       RegisterLocaleData(locale, lhlMessages)
  \/ GetAvailableLocales
  \/ \E locale \in CallLocales : HasLocale(locale)

Spec == Init /\ [][Next]_vars

-----------------------------------------------------------------------------
(* Claims on the module's operations, under Spec *)

SameCall(a, b) ==
  /\ a.op = "getFormatted" /\ b.op = "getFormatted"
  /\ a.x = b.x /\ a.locale = b.locale

\* C6, as stated: two getFormatted calls with equal message and equal locale
\* give the same outcome, whatever calls were made between them.
C6_SameOutcomeWhateverBetween ==
  \A i \in DOMAIN log : \A j \in DOMAIN log :
    (i < j /\ SameCall(log[i], log[j])) => log[i].outcome = log[j].outcome

\* C6, amended: two getFormatted calls with equal message and equal locale
\* give the same outcome when no registerLocaleData call for that locale was
\* made between them; every other call between them changes nothing.
C6_SameOutcomeUnlessRegistered ==
  \A i \in DOMAIN log : \A j \in DOMAIN log :
    ( /\ i < j
      /\ SameCall(log[i], log[j])
      /\ \A k \in (i + 1)..(j - 1) :
           ~(log[k].op = "registerLocaleData" /\ log[k].locale = log[i].locale) )
    => log[i].outcome = log[j].outcome

\* two equal calls, a registration for another locale between them
C6_Witness ==
  /\ Len(log) = 3
  /\ SameCall(log[1], log[3])
  /\ log[1].x = MsgA /\ log[1].locale = "en-US"
  /\ log[2].op = "registerLocaleData" /\ log[2].locale = "xx"

\* C7, as stated: getFormatted returns the localized string for an IcuMessage,
\* a string itself, throws for anything else, and throws for every input when
\* the locale has no registered messages.
C7_ThrowsForEveryInputOnUnsupportedLocale ==
  last.op = "getFormatted" =>
    LET localeMessages == LOCALE_MESSAGES[last.locale]
    IN  /\ localeMessages = Undefined => Threw(last.outcome)
        /\ (localeMessages # Undefined /\ isIcuMessage(last.x)) =>
             last.outcome = _localizeIcuMessage(localeMessages, last.x, last.locale)
        /\ (localeMessages # Undefined /\ TypeOf(last.x) = "string") =>
             last.outcome = Return(last.x)
        /\ (~isIcuMessage(last.x) /\ TypeOf(last.x) # "string") => Threw(last.outcome)

\* C8: with a supported locale, a message the locale has no entry for comes
\* back as its formattedDefault, its values never validated; a message the
\* locale has an entry for comes back as that entry's template formatted with
\* the message's values (or the formatting error), never as formattedDefault.
C8_FallbackOrLocaleTemplate ==
  ( /\ last.op = "getFormatted"
    /\ isIcuMessage(last.x)
    /\ LOCALE_MESSAGES[last.locale] # Undefined )
  =>
    LET localeMessages == LOCALE_MESSAGES[last.locale]
        i18nId == Get(last.x, K_i18nId)[2]
    IN  IF ~HasOwn(localeMessages, i18nId)
        THEN last.outcome = Return(Get(last.x, K_formattedDefault))
        ELSE /\ last.outcome =
                  _formatMessage(Get(localeMessages, i18nId)[2],
                                 Get(last.x, K_values), last.locale)
             /\ last.outcome # Return(Get(last.x, K_formattedDefault))
             /\ ~Threw(last.outcome) =>
                  /\ last.outcome[2][1] = "fmt"
                  /\ last.outcome[2][2] = Get(localeMessages, i18nId)[2]

\* the fallback returned a message whose value matches no placeholder
C8_Witness ==
  /\ last.op = "getFormatted"
  /\ last.x = MsgB_unusedValue
  /\ last.locale = "en-US"
  /\ last.outcome = Return(Str(<<"d", "B">>))

-----------------------------------------------------------------------------
(* The tree walk on a document: SpecWalk *)

ObjKeys == <<"a", "b", "c", "d">>
ArrKeys == <<"0", "1", "2", "3">>

\* what a document holds under its top-level properties
DocNodes ==
  {Str(<<"s">>), Num(5, 1), Null,
   MsgA, MsgA_noValues, MsgB, MsgB_emptyValues,
   NotMsg_badId, NotMsg_nested, Msg_extra,
   Obj(<<<<<<"a">>, MsgB>>>>), Arr(<<<<<<"0">>, MsgA>>>>),
   Obj(<<<<<<"b">>, Str(<<"s">>)>>>>)}

\* an object keyed a, b, ..; an array; an object whose first key has a space
Container(shape, vals) ==
  CASE shape = "obj" -> Obj([i \in DOMAIN vals |-> <<<<ObjKeys[i]>>, vals[i]>>])
    [] shape = "arr" -> Arr([i \in DOMAIN vals |-> <<<<ArrKeys[i]>>, vals[i]>>])
    [] OTHER ->
         Obj([i \in DOMAIN vals |->
                <<IF i = 1 THEN <<"a", " ">> ELSE <<ObjKeys[i]>>, vals[i]>>])

Docs ==
  {Str(<<"s">>), MsgB}
  \cup UNION {{Container(shape, vals) :
                 shape \in {"obj", "arr", "objSpace"}, vals \in [1..n -> DocNodes]} :
              n \in 0..MaxProps}

InitWalk ==
  /\ LOCALE_MESSAGES = InitialLocaleMessages
  /\ doc \in Docs
  /\ input = <<>>
  /\ last = NoCall
  /\ log = <<>>

NextWalk == \E locale \in CallLocales : ReplaceIcuMessages(locale)

SpecWalk == InitWalk /\ [][NextWalk]_vars

\* some property value, at any depth of v, is an IcuMessage
RECURSIVE HoldsIcuMessage(_)
HoldsIcuMessage(v) ==
  /\ isObjectOrArrayOfUnknownValues(v)
  /\ \E i \in DOMAIN v[2] : isIcuMessage(v[2][i][2]) \/ HoldsIcuMessage(v[2][i][2])

\* v with every message replaced by the string getFormatted gives for it
RECURSIVE Localized(_, _, _)
Localized(localeMessages, locale, v) ==
  IF ~isObjectOrArrayOfUnknownValues(v) THEN v
  ELSE <<v[1], [i \in DOMAIN v[2] |->
                  <<v[2][i][1],
                    IF isIcuMessage(v[2][i][2])
                    THEN getFormatted(localeMessages, v[2][i][2], locale)[2]
                    ELSE Localized(localeMessages, locale, v[2][i][2])>>]>>

WalkReturned == last.op = "replaceIcuMessages" /\ ~Threw(last.outcome)

\* C1, as stated: after replaceIcuMessages returns, no property value at any
\* depth of the document is an IcuMessage; each one is now the string
\* getFormatted returned for it and everything else is unchanged.
C1_NoIcuMessageLeft ==
  WalkReturned =>
    /\ ~HoldsIcuMessage(doc)
    /\ doc = Localized(LOCALE_MESSAGES[last.locale], last.locale, last.before)

\* What does hold of the document: each message the walk met is now the
\* string getFormatted gave for it, and everything else is unchanged.
ReplacedWhereMet ==
  WalkReturned =>
    doc = Localized(LOCALE_MESSAGES[last.locale], last.locale, last.before)

\* the messages of v in the order of the walk, each with the path to it
RECURSIVE Locations(_, _)
RECURSIVE LocationsFrom(_, _, _)
Locations(v, path) ==
  IF ~isObjectOrArrayOfUnknownValues(v) THEN <<>> ELSE LocationsFrom(v, 1, path)

LocationsFrom(v, i, path) ==
  IF i > Len(v[2]) THEN <<>>
  ELSE (IF isIcuMessage(v[2][i][2])
        THEN << <<Append(path, v[2][i][1]), v[2][i][2]>> >>
        ELSE Locations(v[2][i][2], Append(path, v[2][i][1])))
       \o LocationsFrom(v, i + 1, path)

\* the entries recorded for message id among the locations, in their order
RECURSIVE RecordedFor(_, _)
RecordedFor(id, locations) ==
  IF locations = <<>> THEN <<>>
  ELSE
    LET path == Head(locations)[1]
        message == Head(locations)[2]
        values == Get(message, K_values)
        pathString == _formatPathAsString(path)[2]
    IN  (IF Get(message, K_i18nId)[2] # id THEN <<>>
         ELSE IF values = Undefined THEN << <<"path", pathString>> >>
         ELSE << <<"valuesAndPath", values, pathString>> >>)
        \o RecordedFor(id, Tail(locations))

RECURSIVE TotalEntries(_)
TotalEntries(icuMessagePaths) ==
  IF icuMessagePaths = <<>> THEN 0
  ELSE Len(Head(icuMessagePaths)[2]) + TotalEntries(Tail(icuMessagePaths))

\* C2: the map replaceIcuMessages returns has, for every message replaced,
\* one entry in the list of the message's i18nId, carrying the location's path
\* string (bare without values, as {values, path} with values), in the order
\* of the walk; it has no other entry and no key twice.
C2_MapRecordsEveryReplacement ==
  WalkReturned =>
    LET icuMessagePaths == last.outcome[2]
        locations == Locations(last.before, <<>>)
        ids == {Get(locations[i][2], K_i18nId)[2] : i \in DOMAIN locations}
    IN  /\ {icuMessagePaths[i][1] : i \in DOMAIN icuMessagePaths} = ids
        /\ \A i \in DOMAIN icuMessagePaths : \A j \in DOMAIN icuMessagePaths :
             icuMessagePaths[i][1] = icuMessagePaths[j][1] => i = j
        /\ \A i \in DOMAIN icuMessagePaths :
             icuMessagePaths[i][2] = RecordedFor(icuMessagePaths[i][1], locations)
        /\ TotalEntries(icuMessagePaths) = Len(locations)

\* one id replaced at two places, once without and once with values
C2_Witness ==
  /\ WalkReturned
  /\ last.before = Container("obj", <<MsgB, MsgB_emptyValues>>)
  /\ last.outcome =
       Return(<< <<ID_B, << <<"path", <<"a">>>>,
                            <<"valuesAndPath", Obj(<<>>), <<"b">>>> >> >> >>)

\* the document as call k of the log left it
DocAfter(k) == IF k = Len(log) THEN doc ELSE log[k + 1].before

\* C10, as stated: once replaceIcuMessages has returned normally, a second
\* call, with any locale, returns an empty map, throws nothing and leaves the
\* document unchanged.
C10_SecondCallChangesNothing ==
  \A k \in 1..(Len(log) - 1) :
    ( /\ log[k].op = "replaceIcuMessages" /\ ~Threw(log[k].outcome)
      /\ log[k + 1].op = "replaceIcuMessages" )
    => /\ log[k + 1].outcome = Return(<<>>)
       /\ DocAfter(k + 1) = log[k + 1].before

-----------------------------------------------------------------------------
(* Formatting one message: SpecFormat *)

PlaceholderIds == {K_x, K_timeInMs, K_toString}

Formats ==
  {NoFormat, DateFormat}
  \cup {NumberFormat(style) :
          style \in {"milliseconds", "seconds", "bytes", "extendedPercent"}}

FlatElements == {Text} \cup {Arg(id, format) : id \in PlaceholderIds, format \in Formats}

FlatTemplates(maxLen) == UNION {[1..n -> FlatElements] : n \in 0..maxLen}

\* one plural on x whose option holds at most one element
PluralTemplates ==
  {<<Arg(K_x, PluralFormat(<<option>>))>> : option \in FlatTemplates(1)}

Templates == FlatTemplates(MaxElems) \cup PluralTemplates

\* the values object: every key given or not, in this order
ValueChoices ==
  << <<K_x, {Undefined, Num(5, 1), Num(-5, 1), Num(15, 2), Num(1536, 1), Str(<<"s">>)}>>,
     <<K_timeInMs, {Undefined, Num(150, 1), Num(-50, 1)}>>,
     <<K_toString, {Undefined, Str(<<"s">>)}>>,
     <<K_errorCode, {Undefined, Str(<<"E">>)}>>,
     <<K_y, {Undefined, Num(5, 1)}>> >>

RECURSIVE ValueObjectsFrom(_)
ValueObjectsFrom(i) ==
  IF i > Len(ValueChoices) THEN {<<>>}
  ELSE {IF v = Undefined THEN rest ELSE << <<ValueChoices[i][1], v>> >> \o rest :
          v \in ValueChoices[i][2], rest \in ValueObjectsFrom(i + 1)}

ValueObjects == {Obj(entries) : entries \in ValueObjectsFrom(1)}

FormatMessage ==
  /\ last.op = "none"
  /\ last' = Event("_formatMessage", input.values, input.locale,
                   _formatMessage(input.message, input.values, input.locale), doc)
  /\ UNCHANGED <<LOCALE_MESSAGES, doc, input, log>>

InitFormat ==
  /\ LOCALE_MESSAGES = InitialLocaleMessages
  /\ doc = Obj(<<>>)
  /\ input \in [message : Templates, values : ValueObjects, locale : {"en-US", "en-XA"}]
  /\ last = NoCall
  /\ log = <<>>

NextFormat == FormatMessage

SpecFormat == InitFormat /\ [][NextFormat]_vars

\* every argument element of a template, those of plural options after their plural
RECURSIVE Placeholders(_)
RECURSIVE PlaceholdersOfOptions(_)
Placeholders(ast) ==
  IF ast = <<>> THEN <<>>
  ELSE LET el == Head(ast)
       IN  (IF el[1] # "argumentElement" THEN <<>>
            ELSE IF el[3][1] = "pluralFormat" THEN <<el>> \o PlaceholdersOfOptions(el[3][2])
            ELSE <<el>>)
           \o Placeholders(Tail(ast))

PlaceholdersOfOptions(options) ==
  IF options = <<>> THEN <<>>
  ELSE Placeholders(Head(options)) \o PlaceholdersOfOptions(Tail(options))

Formatted == last.op = "_formatMessage"

\* the values _preformatValues handed to the formatter, after a success
FormattedValues == last.outcome[2][3]

\* r is v under the unit conversion of a number style
Converted(style, id, v, r) ==
  CASE style = "milliseconds" ->
         /\ r[1] = "num" /\ r[3] = 1 /\ r[2] % 10 = 0
         /\ Abs(r[2] * v[3] - v[2]) <= 5 * v[3]
         /\ Abs(r[2] * v[3] - v[2]) = 5 * v[3] => r[2] * v[3] > v[2]
    [] style = "seconds" /\ id = K_timeInMs ->
         /\ r[1] = "num" /\ 10 % r[3] = 0
         /\ LET k == r[2] * (10 \div r[3])
            IN  /\ Abs(100 * k * v[3] - v[2]) <= 50 * v[3]
                /\ Abs(100 * k * v[3] - v[2]) = 50 * v[3] => 100 * k * v[3] > v[2]
    [] style = "bytes" ->
         /\ r[1] = "num" /\ r[2] * 1024 * v[3] = v[2] * r[3]
         /\ r = Num(r[2], r[3])
    [] OTHER -> r = v

\* C3, as stated: every placeholder of number format whose value is a number
\* gets the value under the conversion of its style (milliseconds: nearest
\* multiple of 10, halves up; bytes: / 1024; seconds with id timeInMs:
\* round(value / 100) / 10; any other: unchanged); a placeholder of no format
\* or another format gets its value unchanged.
C3_EveryPlaceholderConverted ==
  (Formatted /\ ~Threw(last.outcome)) =>
    LET placeholders == Placeholders(input.message)
    IN  \A i \in DOMAIN placeholders :
          LET id == placeholders[i][2]
              format == placeholders[i][3]
              v == Get(input.values, id)
              r == Get(FormattedValues, id)
          IN  IF format[1] = "numberFormat"
              THEN TypeOf(v) = "number" => Converted(format[2], id, v, r)
              ELSE r = v

\* C4, as stated: formatting fails when a placeholder, at top level or in a
\* plural option, has an id that is not among the provided values, and when a
\* placeholder of number format is given a value that is not a number.
C4_FailsOnMissingOrNonNumber ==
  Formatted =>
    LET placeholders == Placeholders(input.message)
    IN  /\ (\E i \in DOMAIN placeholders : ~HasOwn(input.values, placeholders[i][2]))
             => Threw(last.outcome)
        /\ (\E i \in DOMAIN placeholders :
              /\ placeholders[i][3][1] = "numberFormat"
              /\ TypeOf(Get(input.values, placeholders[i][2])) # "number")
             => Threw(last.outcome)

\* C5, as stated: formatting fails when a provided value, other than
\* errorCode, names no placeholder; on success the formatted values are named
\* by the placeholder ids, plus errorCode when it was provided.
C5_FailsOnUnmatchedValue ==
  Formatted =>
    LET placeholders == Placeholders(input.message)
        ids == {placeholders[i][2] : i \in DOMAIN placeholders}
    IN  /\ (\E valueId \in Keys(input.values) : valueId # K_errorCode /\ valueId \notin ids)
             => Threw(last.outcome)
        /\ ~Threw(last.outcome) =>
             Keys(FormattedValues) = ids \cup (Keys(input.values) \cap {K_errorCode})

\* Where the three statements above do hold.

\* all placeholders of one id have the same format
OneFormatPerId ==
  LET placeholders == Placeholders(input.message)
  IN  \A i \in DOMAIN placeholders : \A j \in DOMAIN placeholders :
        placeholders[i][2] = placeholders[j][2] => placeholders[i][3] = placeholders[j][3]

\* no placeholder id is a property that every object inherits
NoInheritedPlaceholderId ==
  LET placeholders == Placeholders(input.message)
  IN  \A i \in DOMAIN placeholders : placeholders[i][2] \notin ObjectPrototypeKeys

\* with one format per id, every placeholder gets the conversion of its style
ConvertedWhenOneFormatPerId == OneFormatPerId => C3_EveryPlaceholderConverted

\* with one format per id and no inherited name among the ids, a missing value
\* and a non-number for a number placeholder both fail
FailsOnMissingWhenOwnNames ==
  (OneFormatPerId /\ NoInheritedPlaceholderId) => C4_FailsOnMissingOrNonNumber

\* with no inherited name among the values, an unmatched value fails
FailsOnUnmatchedWhenOwnNames ==
  (Keys(input.values) \cap ObjectPrototypeKeys = {}) => C5_FailsOnUnmatchedValue

-----------------------------------------------------------------------------
(* Formatting one path: SpecPath *)

PathChars == {"a", "B", ".", "[", "]", " ", "'", "\""}

\* the paths of at most budget characters, a property counting its length + 1
RECURSIVE Paths(_)
Paths(budget) ==
  {<<>>}
  \cup UNION {{<<property>> \o rest :
                 property \in [1..n -> PathChars], rest \in Paths(budget - 1 - n)} :
              n \in 0..(budget - 1)}

FormatPathAsString ==
  /\ last.op = "none"
  /\ last' = Event("_formatPathAsString", Undefined, "", _formatPathAsString(input), doc)
  /\ UNCHANGED <<LOCALE_MESSAGES, doc, input, log>>

InitPath ==
  /\ LOCALE_MESSAGES = InitialLocaleMessages
  /\ doc = Obj(<<>>)
  /\ input \in Paths(MaxPathChars)
  /\ last = NoCall
  /\ log = <<>>

NextPath == FormatPathAsString

SpecPath == InitPath /\ [][NextPath]_vars

\* the index of the first c in s at or after i, Len(s) + 1 when there is none
RECURSIVE IndexFrom(_, _, _)
IndexFrom(s, c, i) ==
  IF i > Len(s) THEN Len(s) + 1
  ELSE IF s[i] = c THEN i ELSE IndexFrom(s, c, i + 1)

\* the index after the run of letters of s that starts at i
RECURSIVE LettersEnd(_, _)
LettersEnd(s, i) ==
  IF i > Len(s) \/ s[i] \notin Letters THEN i ELSE LettersEnd(s, i + 1)

\* the property sequence read back from a path string, from index i on:
\* [..] up to the first ']' is one property, a run of letters is one property,
\* a '.' only separates
RECURSIVE ReadPath(_, _)
ReadPath(s, i) ==
  IF i > Len(s) THEN <<>>
  ELSE IF s[i] = "." THEN ReadPath(s, i + 1)
  ELSE IF s[i] = "["
  THEN LET close == IndexFrom(s, "]", i + 1)
       IN  <<SubSeq(s, i + 1, close - 1)>> \o ReadPath(s, close + 1)
  ELSE LET end == LettersEnd(s, i)
       IN  IF end = i THEN << <<"?">> >>
           ELSE <<SubSeq(s, i, end - 1)>> \o ReadPath(s, end)

\* the string the claim describes: letters-only properties joined with '.',
\* any other property as [property]
RECURSIVE DescribedPath(_, _)
DescribedPath(path, i) ==
  IF i > Len(path) THEN <<>>
  ELSE (IF OnlyLetters(path[i])
        THEN (IF i > 1 THEN <<".">> ELSE <<>>) \o path[i]
        ELSE <<"[">> \o path[i] \o <<"]">>)
       \o DescribedPath(path, i + 1)

PathFormatted == last.op = "_formatPathAsString"

\* C9: path strings identify locations: the property sequence is read back
\* from its path string, so two different sequences never get the same
\* string; a property of letters only is appended after a '.', any other as
\* [property]; a property with ']', a quote or whitespace is rejected.
C9_PathStringsIdentifyLocations ==
  PathFormatted =>
    /\ Threw(last.outcome) <=>
         \E i \in DOMAIN input : \E j \in DOMAIN input[i] :
           input[i][j] \in {"]", "\"", "'", " ", "\t", "\n"}
    /\ ~Threw(last.outcome) =>
         /\ ReadPath(last.outcome[2], 1) = input
         /\ last.outcome[2] = DescribedPath(input, 1)

\* a property with a '.' in it, which only the brackets tell from two properties
C9_Witness ==
  /\ PathFormatted
  /\ input = << <<"a", ".", "a">> >>
  /\ last.outcome = Return(<<"[", "a", ".", "a", "]">>)

=============================================================================
